---- MODULE Spec2Model ----
(***************************************************************************)
(* Model of particeps (src/particeps/particeps.go): a client library that  *)
(* uploads a local file to AnonFiles, BayFiles, Filebin or Imagebin and    *)
(* normalises the provider's answer into a UniversalResponse, plus the     *)
(* file inspector CheckFile with its helpers prettySize and round.         *)
(*                                                                         *)
(* Go strings are sequences of one-character strings.  The file system,    *)
(* the network and the provider are the environment: every library call    *)
(* the code branches on (CreateFormFile, os.Open, http.Post, ReadAll,      *)
(* json.Unmarshal, os.Stat) draws its outcome from a small set.            *)
(* float64 arithmetic of round/prettySize is evaluated over exact          *)
(* rationals <<numerator, denominator>>.                                   *)
(***************************************************************************)
EXTENDS Integers, Sequences, FiniteSets, TLC

VARIABLES
    pc,          \* "idle": between calls, "call": round input drawn, "done": a call ended, "dead": process ended
    op,          \* name of the function last called
    filename,    \* its filename argument
    env,         \* what the environment answered during the call
    exit,        \* "none" | "return" | "panic" | "fatal" (os.Exit via log.Fatalln)
    ret,         \* the UniversalResponse returned
    err,         \* the error returned ("nil" when none)
    sent,        \* the HTTP requests issued by the call
    openFiles,   \* file handles opened by the calls so far and not closed
    openBodies,  \* response bodies obtained by the calls so far and not closed
    size,        \* the string CheckFile returned
    rin,         \* round: <<val, places>>
    rout         \* round: newVal

vars == <<pc, op, filename, env, exit, ret, err, sent, openFiles, openBodies, size, rin, rout>>

(***************************************************************************)
(* Bounds of the model.                                                    *)
(***************************************************************************)
MaxChunks == 4       \* a text response is made of at most MaxChunks chunks
MaxLinks == 2        \* a Filebin response carries at most MaxLinks links
MaxOpenFiles == 2    \* descriptors the process may hold before os.Open fails
MaxSmallSize == 40   \* every file size 0..MaxSmallSize is tried
MaxEighths == 40     \* round is tried on every k/8 with |k| <= MaxEighths
MaxPlaces == 2       \* and every places in 0..MaxPlaces

(***************************************************************************)
(* Strings.                                                                *)
(***************************************************************************)
EmptyString == << >>

Marker == <<"u", "r", "l", ":">>

RECURSIVE Concat(_)
Concat(ss) ==
    IF ss = << >> THEN << >> ELSE Head(ss) \o Concat(Tail(ss))

\* Go's s[lo:hi] with 0-based, half-open bounds
Slice(s, lo, hi) == SubSeq(s, lo + 1, hi)

\* strings.HasPrefix(s[i:], word), i 0-based
MatchesAt(s, word, i) ==
    /\ i >= 0
    /\ i + Len(word) <= Len(s)
    /\ Slice(s, i, i + Len(word)) = word

RECURSIVE IndexFrom(_, _, _)
IndexFrom(s, word, i) ==
    IF i + Len(word) > Len(s) THEN -1
    ELSE IF MatchesAt(s, word, i) THEN i
    ELSE IndexFrom(s, word, i + 1)

\* strings.Index (first occurrence): what a slip for strings.LastIndex computes
Index(s, word) == IndexFrom(s, word, 0)

RECURSIVE LastIndexFrom(_, _, _)
LastIndexFrom(s, word, i) ==
    IF i < 0 THEN -1
    ELSE IF MatchesAt(s, word, i) THEN i
    ELSE LastIndexFrom(s, word, i - 1)

\* strings.LastIndex: scans from the last possible start towards 0
LastIndex(s, word) == LastIndexFrom(s, word, Len(s) - Len(word))

getStringAfterWord(value, word) ==
    LET pos == LastIndex(value, word)
        adjustedPos == pos + Len(word)
    IN  IF pos = -1 THEN EmptyString
        ELSE IF adjustedPos >= Len(value) THEN EmptyString
        ELSE Slice(value, adjustedPos, Len(value))

\* os.IsPathSeparator
IsPathSeparator(c) == c = "/"

RECURSIVE StripTrailingSlashes(_)
StripTrailingSlashes(path) ==
    IF Len(path) > 0 /\ IsPathSeparator(path[Len(path)])
    THEN StripTrailingSlashes(Slice(path, 0, Len(path) - 1))
    ELSE path

RECURSIVE LastSeparator(_, _)
LastSeparator(path, i) ==
    IF i >= 0 /\ ~IsPathSeparator(path[i + 1]) THEN LastSeparator(path, i - 1) ELSE i

\* filepath.Base
Base(path) ==
    IF path = EmptyString THEN <<".">>
    ELSE LET p == StripTrailingSlashes(path)
             i == LastSeparator(p, Len(p) - 1)
             q == IF i >= 0 THEN Slice(p, i + 1, Len(p)) ELSE p
         IN  IF q = EmptyString THEN <<"/">> ELSE q

(***************************************************************************)
(* Inputs: paths, provider responses, environment outcomes.                *)
(***************************************************************************)
\* paths naming a file: bare, relative and absolute with directories
Paths ==
    { <<"a">>, <<".", "/", "a">>, <<"d", "/", "a">>, <<"/", "d", "/", "e", "/", "a">> }

SeqsUpTo(S, n) == UNION { [1..k -> S] : k \in 0..n }

\* a plain-text response: pieces that build, repeat, truncate and follow the marker
Chunks == { Marker, <<"x">>, <<"u">>, <<":">> }

TextBodies == { Concat(cs) : cs \in SeqsUpTo(Chunks, MaxChunks) }

\* an optional JSON member: << >> when missing, <<v>> when present
Opt(S) == { << >> } \cup { <<v>> : v \in S }

JSONStrings == { EmptyString, <<"h">>, <<"s">> }

\* a JSON string member decoded into a Go string field (missing: zero value)
StringField(o) == IF o = << >> THEN EmptyString ELSE o[1]

\* response documents of AnonFiles/BayFiles: not JSON at all, or an object
\* {status, data:{file:{url:{full, short}}}} with members missing or mistyped
NotJSONAnon == [valid |-> FALSE, status |-> "missing", full |-> << >>, short |-> << >>]

AnonFilesDocs ==
    { NotJSONAnon } \cup
    [valid : {TRUE}, status : {"missing", "true", "false", "string"},
     full : Opt(JSONStrings), short : Opt(JSONStrings)]

\* response documents of Filebin: not JSON at all, or an object {links:[{href},...]}
NotJSONFilebin == [valid |-> FALSE, hasLinks |-> FALSE, links |-> << >>]

FilebinDocs ==
    { NotJSONFilebin } \cup
    { [valid |-> TRUE, hasLinks |-> FALSE, links |-> << >>] } \cup
    [valid : {TRUE}, hasLinks : {TRUE}, links : SeqsUpTo(Opt(JSONStrings), MaxLinks)]

\* json.Unmarshal(body, &successResponse) for AnonFilesSuccess
UnmarshalAnonFilesSuccess(doc) ==
    IF ~doc.valid
    THEN [err |-> "SyntaxError",
          v |-> [Status |-> FALSE, Full |-> EmptyString, Short |-> EmptyString]]
    ELSE [err |-> IF doc.status = "string" THEN "UnmarshalTypeError" ELSE "nil",
          v |-> [Status |-> doc.status = "true",
                 Full |-> StringField(doc.full),
                 Short |-> StringField(doc.short)]]

\* json.Unmarshal(body, &successResponse) for FilebinSuccess
UnmarshalFilebinSuccess(doc) ==
    IF ~doc.valid
    THEN [err |-> "SyntaxError", v |-> [Links |-> << >>]]
    ELSE [err |-> "nil",
          v |-> [Links |-> [i \in 1..Len(doc.links) |-> [Href |-> StringField(doc.links[i])]]]]

\* what the environment answers during one upload call; the response is
\* only drawn when the exchange gets as far as delivering it
UploadEnvs(Docs, none, nOpen) ==
    { e \in [createOk : BOOLEAN, openOk : BOOLEAN,
             net : {"postErr", "readErr", "ok"}, body : Docs] :
        /\ (e.createOk /\ e.net = "ok") \/ e.body = none
        /\ e.openOk => nOpen < MaxOpenFiles }

\* the same for FilebinUpload, whose steps are os.Open, http.NewRequest,
\* Do, ReadAll
FilebinEnvs(nOpen) ==
    { e \in [openOk : BOOLEAN, reqOk : BOOLEAN,
             net : {"postErr", "readErr", "ok"}, body : FilebinDocs] :
        /\ (e.openOk /\ e.reqOk /\ e.net = "ok") \/ e.body = NotJSONFilebin
        /\ e.openOk => nOpen < MaxOpenFiles }

(***************************************************************************)
(* The upload operations.  Each yields the outcome of one whole call:      *)
(* how it ended, what it returned, the requests it issued and the file     *)
(* handles and response bodies it left open.                               *)
(***************************************************************************)
AnonFilesURL == "https://api.anonfiles.com/upload"
BayFilesURL == "https://api.bayfiles.com/upload"
ImagebinURL == "https://imagebin.ca/upload.php"
FilebinURL == "https://filebin.net"

\* var result UniversalResponse; result.Status = false
ZeroResponse == [Status |-> FALSE, FullURL |-> EmptyString, ShortURL |-> EmptyString]

Outcome(x, r, e, reqs, files) ==
    [exit |-> x, ret |-> r, err |-> e, sent |-> reqs, files |-> files, bodies |-> 0]

\* mw.CreateFormFile("file", filename); io.Copy(partWriter, fileReader);
\* mw.Close(); http.Post(destURI, mw.FormDataContentType(), mpb).
\* A nil fileReader makes io.Copy fail (ignored) and leaves the part empty.
MultipartPost(destURI, fname, opened) ==
    [method |-> "POST", url |-> destURI, contentType |-> "multipart/form-data",
     parts |-> << [field |-> "file", filename |-> fname,
                   content |-> IF opened THEN "file" ELSE "empty"] >>]

\* a decoder that copies the fields before looking at the decode error
uploadFileDecodeEager(returnValue, body) ==
    LET d == UnmarshalAnonFilesSuccess(body)
    IN  [ret |-> [Status |-> d.v.Status, FullURL |-> d.v.Full, ShortURL |-> d.v.Short],
         err |-> d.err]

\* uploadFile, from json.Unmarshal to the final return
uploadFileDecode(returnValue, body) ==
    LET d == UnmarshalAnonFilesSuccess(body)
    IN  IF d.err # "nil"
        THEN [ret |-> returnValue, err |-> d.err]
        ELSE [ret |-> [Status |-> d.v.Status, FullURL |-> d.v.Full, ShortURL |-> d.v.Short],
              err |-> "nil"]

uploadFile(fname, destURI, e) ==
    LET returnValue == ZeroResponse
        files == IF e.openOk THEN 1 ELSE 0      \* fileReader is never closed
        req == << MultipartPost(destURI, fname, e.openOk) >>
    IN  IF ~e.createOk THEN Outcome("fatal", returnValue, "nil", << >>, 0)
        ELSE IF e.net = "postErr" THEN Outcome("return", returnValue, "PostError", req, files)
        ELSE IF e.net = "readErr" THEN Outcome("return", returnValue, "ReadError", req, files)
        ELSE LET d == uploadFileDecode(returnValue, e.body)
             IN  Outcome("return", d.ret, d.err, req, files)

\* ImagebinUpload, from getStringAfterWord to the final return
ImagebinParse(result, body) ==
    LET full == getStringAfterWord(body, Marker)
        r == [result EXCEPT !.FullURL = full]
    IN  IF full = EmptyString THEN r ELSE [r EXCEPT !.Status = TRUE]

ImagebinUploadCall(fname, e) ==
    LET result == ZeroResponse
        files == IF e.openOk THEN 1 ELSE 0      \* fileReader is never closed
        req == << MultipartPost(ImagebinURL, fname, e.openOk) >>
    IN  IF ~e.createOk THEN Outcome("return", result, "CreateFormFileError", << >>, 0)
        ELSE IF e.net = "postErr" THEN Outcome("return", result, "PostError", req, files)
        ELSE IF e.net = "readErr" THEN Outcome("return", result, "ReadError", req, files)
        ELSE Outcome("return", ImagebinParse(result, e.body), "nil", req, files)

\* req.Header.Set("Filename", filepath.Base(filename)); the body is the file
FilebinPost(fname) ==
    [method |-> "POST", url |-> FilebinURL,
     contentType |-> "application/x-www-form-urlencoded",
     filenameHeader |-> Base(fname), body |-> "file"]

FilebinUploadCall(fname, e) ==
    LET returnValue == ZeroResponse
        req == << FilebinPost(fname) >>
    IN  \* every return below runs the deferred f.Close() and resp.Body.Close()
        IF ~e.openOk THEN Outcome("return", returnValue, "OpenError", << >>, 0)
        ELSE IF ~e.reqOk THEN Outcome("return", returnValue, "NewRequestError", << >>, 0)
        ELSE IF e.net = "postErr" THEN Outcome("return", returnValue, "PostError", req, 0)
        ELSE IF e.net = "readErr" THEN Outcome("return", returnValue, "ReadError", req, 0)
        ELSE LET d == UnmarshalFilebinSuccess(e.body)
             IN  IF d.err # "nil" THEN Outcome("return", returnValue, d.err, req, 0)
                 \* successResponse.Links[1]: index out of range panics
                 ELSE IF Len(d.v.Links) < 2 THEN Outcome("panic", returnValue, "nil", req, 0)
                 ELSE IF d.v.Links[2].Href # EmptyString
                 THEN Outcome("return",
                              [returnValue EXCEPT !.FullURL = d.v.Links[2].Href, !.Status = TRUE],
                              "nil", req, 0)
                 ELSE Outcome("return", returnValue, "nil", req, 0)

(***************************************************************************)
(* round, prettySize, CheckFile.  A float64 is the exact rational          *)
(* <<n, d>> with d > 0.                                                    *)
(***************************************************************************)
RECURSIVE Pow(_, _)
Pow(b, e) == IF e = 0 THEN 1 ELSE b * Pow(b, e - 1)

RECURSIVE GCD(_, _)
GCD(a, b) == IF b = 0 THEN a ELSE GCD(b, a % b)

\* the rational n/d in lowest terms (the same number)
Rat(n, d) == LET g == GCD(IF n < 0 THEN -n ELSE n, d) IN <<n \div g, d \div g>>

\* math.Floor, math.Ceil of the rational q
Floor(q) == q[1] \div q[2]
Ceil(q) == -((-q[1]) \div q[2])

\* math.Modf: integer part towards zero, fractional part with the sign of q
Modf(q) ==
    LET int == IF q[1] >= 0 THEN Floor(q) ELSE Ceil(q)
    IN  <<int, <<q[1] - int * q[2], q[2]>>>>

\* a >= b
GEq(a, b) == a[1] * b[2] >= b[1] * a[2]

Half == <<1, 2>>

\* round: the result newVal = round / pow is the rational <<round, pow>>
round(val, roundOn, places) ==
    LET pow == Pow(10, places)
        digit == <<pow * val[1], val[2]>>
        div == Modf(digit)[2]
    IN  <<IF GEq(div, roundOn) THEN Ceil(digit) ELSE Floor(digit), pow>>

suffixes == <<<<"B">>, <<"K", "B">>, <<"M", "B">>, <<"G", "B">>>>

Digit(k) == <<"0", "1", "2", "3", "4", "5", "6", "7", "8", "9">>[k + 1]

RECURSIVE Itoa(_)
Itoa(k) == IF k < 10 THEN <<Digit(k)>> ELSE Itoa(k \div 10) \o <<Digit(k % 10)>>

\* the fraction k / 10^p as exactly p digits
RECURSIVE FracDigits(_, _)
FracDigits(k, p) ==
    IF p = 0 THEN << >> ELSE FracDigits(k \div 10, p - 1) \o <<Digit(k % 10)>>

RECURSIVE Places(_)
Places(pow) == IF pow = 1 THEN 0 ELSE 1 + Places(pow \div 10)

\* strconv.FormatFloat(f, 'f', -1, 64) of f = k / pow >= 0, pow a power of ten:
\* the shortest decimal, so no trailing zeros and no bare point
RECURSIVE FormatFloat(_)
FormatFloat(f) ==
    IF f[2] > 1 /\ f[1] % 10 = 0 THEN FormatFloat(<<f[1] \div 10, f[2] \div 10>>)
    ELSE IF f[2] = 1 THEN Itoa(f[1])
    ELSE Itoa(f[1] \div f[2]) \o <<".">> \o FracDigits(f[1] % f[2], Places(f[2]))

NaNText == <<"N", "a", "N">>

\* floor(log_1024(b)) for b >= 1
RECURSIVE FloorLog1024(_)
FloorLog1024(b) == IF b < 1024 THEN 0 ELSE 1 + FloorLog1024(b \div 1024)

MaxInt == 2147483647
MinInt == -MaxInt - 1

\* int(math.Floor(base)).  For b = 0 base is -Inf, and Go leaves the
\* conversion of a float the int cannot hold implementation-dependent: the
\* most negative int on amd64 and arm64 (the model's integers are 32 bits
\* wide); the model also keeps 0 and the most positive int.
SuffixIndexes(b) == IF b = 0 THEN {MinInt, 0, MaxInt} ELSE {FloorLog1024(b)}

\* prettySize(float64(b)) when the conversion yields idx
prettySize(b, idx) ==
    IF idx < 0 \/ idx >= Len(suffixes)
    THEN [exit |-> "panic", str |-> EmptyString]       \* suffixes[idx] out of range
    ELSE LET \* math.Pow(1024, base - math.Floor(base)); NaN for b = 0
             text == IF b = 0 THEN NaNText
                     ELSE FormatFloat(round(Rat(b, Pow(1024, FloorLog1024(b))), Half, 2))
         IN  [exit |-> "return", str |-> text \o <<" ">> \o suffixes[idx + 1]]

\* file sizes os.Stat reports: every small one, and around each unit the
\* boundary, the half-way roundings and the largest mantissas
Sizes ==
    (0..MaxSmallSize) \cup { 1000, 1023 } \cup
    { (q * 1024 + r) * Pow(1024, e - 1) :
        q \in {1, 2, 1023}, r \in {0, 1, 128, 133, 512, 1023}, e \in 1..2 } \cup
    { (1024 + r) * Pow(1024, 2) : r \in {0, 1, 128, 133, 512, 1023} }

CheckFileEnvs ==
    { [statOk |-> FALSE, fsize |-> 0] } \cup [statOk : {TRUE}, fsize : Sizes]

(***************************************************************************)
(* The program: a process that calls the exported functions one after the  *)
(* other.  A call is one step; Continue is the caller moving on.           *)
(***************************************************************************)
NoEnv == [none |-> TRUE]

Init ==
    /\ pc = "idle"
    /\ op = "none"
    /\ filename = EmptyString
    /\ env = NoEnv
    /\ exit = "none"
    /\ ret = ZeroResponse
    /\ err = "nil"
    /\ sent = << >>
    /\ openFiles = 0
    /\ openBodies = 0
    /\ size = EmptyString
    /\ rin = <<<<0, 1>>, 0>>
    /\ rout = <<0, 1>>

\* an unrecovered panic and log.Fatalln end the process
Upload(name, fname, e, o) ==
    /\ pc' = IF o.exit = "return" THEN "done" ELSE "dead"
    /\ op' = name
    /\ filename' = fname
    /\ env' = e
    /\ exit' = o.exit
    /\ ret' = o.ret
    /\ err' = o.err
    /\ sent' = o.sent
    /\ openFiles' = openFiles + o.files
    /\ openBodies' = openBodies + o.bodies
    /\ UNCHANGED <<size, rin, rout>>

AnonFilesUpload ==
    /\ pc = "idle"
    /\ \E fname \in Paths, e \in UploadEnvs(AnonFilesDocs, NotJSONAnon, openFiles) :
        Upload("AnonFilesUpload", fname, e, uploadFile(fname, AnonFilesURL, e))

BayFilesUpload ==
    /\ pc = "idle"
    /\ \E fname \in Paths, e \in UploadEnvs(AnonFilesDocs, NotJSONAnon, openFiles) :
        Upload("BayFilesUpload", fname, e, uploadFile(fname, BayFilesURL, e))

ImagebinUpload ==
    /\ pc = "idle"
    /\ \E fname \in Paths, e \in UploadEnvs(TextBodies, EmptyString, openFiles) :
        Upload("ImagebinUpload", fname, e, ImagebinUploadCall(fname, e))

FilebinUpload ==
    /\ pc = "idle"
    /\ \E fname \in Paths, e \in FilebinEnvs(openFiles) :
        Upload("FilebinUpload", fname, e, FilebinUploadCall(fname, e))

CheckFile ==
    /\ pc = "idle"
    /\ \E fname \in Paths, e \in CheckFileEnvs :
        \E idx \in SuffixIndexes(e.fsize) :
            LET p == IF e.statOk THEN prettySize(e.fsize, idx)
                     ELSE [exit |-> "return", str |-> EmptyString]
            IN  /\ pc' = IF p.exit = "return" THEN "done" ELSE "dead"
                /\ op' = "CheckFile"
                /\ filename' = fname
                /\ env' = [statOk |-> e.statOk, fsize |-> e.fsize, idx |-> idx]
                /\ exit' = p.exit
                /\ size' = p.str
                /\ err' = IF e.statOk THEN "nil" ELSE "StatError"
                /\ UNCHANGED <<ret, sent, openFiles, openBodies, rin, rout>>

Continue ==
    /\ pc = "done"
    /\ pc' = "idle"
    /\ op' = "none"
    /\ filename' = EmptyString
    /\ env' = NoEnv
    /\ exit' = "none"
    /\ ret' = ZeroResponse
    /\ err' = "nil"
    /\ sent' = << >>
    /\ size' = EmptyString
    /\ UNCHANGED <<openFiles, openBodies, rin, rout>>

Next ==
    \/ AnonFilesUpload
    \/ BayFilesUpload
    \/ ImagebinUpload
    \/ FilebinUpload
    \/ CheckFile
    \/ Continue

Spec == Init /\ [][Next]_vars

(***************************************************************************)
(* round on its own: the input is drawn, then round is applied to it with  *)
(* roundOn = 0.5.                                                          *)
(***************************************************************************)
RoundInputs == { <<<<k, 8>>, p>> : k \in (-MaxEighths)..MaxEighths, p \in 0..MaxPlaces }

InitRound ==
    /\ pc = "call"
    /\ op = "round"
    /\ filename = EmptyString
    /\ env = NoEnv
    /\ exit = "none"
    /\ ret = ZeroResponse
    /\ err = "nil"
    /\ sent = << >>
    /\ openFiles = 0
    /\ openBodies = 0
    /\ size = EmptyString
    /\ rin \in RoundInputs
    /\ rout = <<0, 1>>

RoundCall ==
    /\ pc = "call"
    /\ pc' = "done"
    /\ exit' = "return"
    /\ rout' = round(rin[1], Half, rin[2])
    /\ UNCHANGED <<op, filename, env, ret, err, sent, openFiles, openBodies, size, rin>>

NextRound == RoundCall

SpecRound == InitRound /\ [][NextRound]_vars

(***************************************************************************)
(* Properties.                                                             *)
(***************************************************************************)
MultipartOps == {"AnonFilesUpload", "BayFilesUpload", "ImagebinUpload"}

UploadOps == MultipartOps \cup {"FilebinUpload"}

\* C1: an upload that returns without an error has Status = true if and
\* only if its FullURL is a non-empty string.
StatusIffFullURL ==
    (op \in UploadOps /\ exit = "return" /\ err = "nil")
        => (ret.Status <=> ret.FullURL # EmptyString)

\* C2: FilebinUpload answers a JSON response with fewer than 2 links (or
\* none at all) by returning a decode error, never by a panic.
FilebinFewLinksIsError ==
    (/\ op = "FilebinUpload"
     /\ env.openOk /\ env.reqOk /\ env.net = "ok"
     /\ env.body.valid
     /\ Len(env.body.links) < 2)
        => (exit = "return" /\ err # "nil")

\* C3: when the local file cannot be opened, a multipart upload returns the
\* file-open error and issues no HTTP POST.
OpenErrorPropagated ==
    (op \in MultipartOps /\ env.createOk /\ ~env.openOk)
        => (exit = "return" /\ err = "OpenError" /\ sent = << >>)

\* C4: once the upload calls made so far have returned, none of the file
\* handles and response bodies they obtained is still open.
NoHandleLeftOpen ==
    pc \in {"idle", "done"} => (openFiles = 0 /\ openBodies = 0)

\* the 0-based positions at which the marker "url:" occurs in body
MarkerPositions(body) ==
    { i \in 0..(Len(body) - 4) : SubSeq(body, i + 1, i + 4) = <<"u", "r", "l", ":">> }

LastMarker(body) ==
    CHOOSE i \in MarkerPositions(body) : \A j \in MarkerPositions(body) : j <= i

\* C5: for every text body ImagebinUpload receives it returns without error;
\* if the marker occurs and text follows its last occurrence, FullURL is
\* exactly that text, Status is true and ShortURL is empty; otherwise
\* Status is false and FullURL is empty.
ImagebinTakesTextAfterLastMarker ==
    (op = "ImagebinUpload" /\ env.createOk /\ env.net = "ok")
        => /\ exit = "return"
           /\ err = "nil"
           /\ ret.ShortURL = << >>
           /\ IF /\ MarkerPositions(env.body) # {}
                 /\ LastMarker(env.body) + 4 < Len(env.body)
              THEN /\ ret.Status
                   /\ ret.FullURL =
                        SubSeq(env.body, LastMarker(env.body) + 5, Len(env.body))
              ELSE /\ ~ret.Status
                   /\ ret.FullURL = << >>

\* a body with the marker twice, text after both, and the call has returned
ImagebinTwoMarkersSeen ==
    /\ pc = "done"
    /\ op = "ImagebinUpload" /\ env.createOk /\ env.net = "ok"
    /\ Cardinality(MarkerPositions(env.body)) >= 2
    /\ ret.Status
    /\ Len(ret.FullURL) < Len(env.body) - 4

IsDigit(c) == c \in {"0", "1", "2", "3", "4", "5", "6", "7", "8", "9"}

DigitValue(c) == CHOOSE k \in 0..9 : Digit(k) = c

RECURSIVE ParseNat(_)
ParseNat(t) ==
    IF t = << >> THEN 0 ELSE 10 * ParseNat(SubSeq(t, 1, Len(t) - 1)) + DigitValue(t[Len(t)])

AllDigits(t) == t # << >> /\ \A i \in 1..Len(t) : IsDigit(t[i])

\* a decimal "i", "i.f" or "i.ff" read as hundredths; -1 when t is no such text
ParseHundredths(t) ==
    LET dots == { i \in 1..Len(t) : t[i] = "." }
    IN  IF dots = {} THEN (IF AllDigits(t) THEN 100 * ParseNat(t) ELSE -1)
        ELSE LET d == CHOOSE i \in dots : TRUE
                 whole == SubSeq(t, 1, d - 1)
                 frac == SubSeq(t, d + 1, Len(t))
             IN  IF Cardinality(dots) = 1 /\ AllDigits(whole) /\ AllDigits(frac) /\ Len(frac) <= 2
                 THEN 100 * ParseNat(whole)
                        + (IF Len(frac) = 1 THEN 10 * ParseNat(frac) ELSE ParseNat(frac))
                 ELSE -1

Abs(x) == IF x < 0 THEN -x ELSE x

\* text reads "<number> <unit>", the unit is the one of floor(log_1024(b))
\* and number * 1024^index is b up to half a hundredth of the unit
ReadsAsSize(text, b) ==
    LET spaces == { i \in 1..Len(text) : text[i] = " " }
    IN  /\ Cardinality(spaces) = 1
        /\ LET sp == CHOOSE i \in spaces : TRUE
               k == ParseHundredths(SubSeq(text, 1, sp - 1))
               idx == FloorLog1024(b)
               q == Rat(b, Pow(1024, idx))
           IN  /\ SubSeq(text, sp + 1, Len(text)) = suffixes[idx + 1]
               /\ k >= 0
               /\ 2 * Abs(k * q[2] - 100 * q[1]) <= q[2]

\* C6: for every size b in [0, 1024^4) of a file that exists, CheckFile
\* returns "<number> <unit>" with the unit of index floor(log_1024(b)) in
\* 0..3 and number * 1024^index = b within 2-decimal rounding; no such b
\* indexes outside the suffix table.
SizeTextMatchesSize ==
    (op = "CheckFile" /\ env.statOk)
        => (exit = "return" /\ ReadsAsSize(size, env.fsize))

\* C7: no upload call ends the process: every failure comes back to the
\* caller as an error value.
NoUploadEndsTheProcess ==
    op \in UploadOps => (exit = "return" /\ pc # "dead")

\* C8: the multipart body of a multipart upload has exactly one part, named
\* "file", whose file name is the base name of the path given.
MultipartFileNameIsBaseName ==
    (op \in MultipartOps /\ sent # << >>)
        => /\ Len(sent[1].parts) = 1
           /\ sent[1].parts[1].field = "file"
           /\ sent[1].parts[1].filename = Base(filename)

\* C9: round(v, 0.5, p) is round-half-up of v at p places, that is
\* floor(v * 10^p + 0.5) / 10^p, for positive, zero and negative v.
RoundIsRoundHalfUp ==
    (op = "round" /\ pc = "done")
        => LET n == rin[1][1]
               d == rin[1][2]
               pow == Pow(10, rin[2])
           IN  rout = <<(2 * pow * n + d) \div (2 * d), pow>>

\* C10: an upload that returns an error returns it with Status = false and
\* both URLs empty.
ErrorComesWithZeroResult ==
    (op \in UploadOps /\ exit = "return" /\ err # "nil") => ret = ZeroResponse

\* a decode error on a response whose URL members did decode
DecodeErrorAfterURLsDecoded ==
    /\ pc = "done"
    /\ op = "AnonFilesUpload"
    /\ err = "UnmarshalTypeError"
    /\ env.body.full = << <<"h">> >>
    /\ env.body.short = << <<"s">> >>

====
